---- MODULE Spec2Model ----
(***************************************************************************)
(* The CheckoutForm component                                              *)
(* (live-coding/src/components/blocks/CheckoutForm/index.tsx) as a state   *)
(* machine: the form-state holder (useModels), the validation holder       *)
(* (useValidator over the Joi schema), the effect that copies the one      *)
(* into the other, the two formatters, the submit handler and the submit   *)
(* button's disabled flag.                                                 *)
(*                                                                         *)
(* A string is a sequence of one-character strings, <<"1", "2", "a">>.     *)
(* null is the one-element sequence <<"null">>, which no typed string      *)
(* equals (its element is not a character).                                *)
(***************************************************************************)
EXTENDS Integers, Sequences, FiniteSets, TLC

VARIABLES
    models,          \* useModels: the four form values
    data,            \* useValidator: state.$data
    errors,          \* useValidator: state.$errors, one message per field ("" = none)
    auto_invalid,    \* useValidator: state.$auto_invalid
    syncPending,     \* the component's effect [models] is scheduled and has not run
    validatePending, \* the validator's effect on $data is scheduled and has not run
    loading,         \* the loading prop of the last render
    called,          \* the arguments of the onSuccess calls of the last step, in order
    now              \* the current date as <<year, month>> (new Date)

vars == <<models, data, errors, auto_invalid, syncPending,
          validatePending, loading, called, now>>

Fields == {"email", "card_number", "card_expire", "cvv"}

Null == <<"null">>

defaultState == [f \in Fields |-> Null]

----------------------------------------------------------------------------
(* Characters and strings *)

DigitChars == <<"0", "1", "2", "3", "4", "5", "6", "7", "8", "9">>

Digits == {DigitChars[i] : i \in 1..10}

IsDigit(c) == c \in Digits

IsNonDigit(c) == c \notin Digits

IsSpace(c) == c = " "

NotSpace(c) == c # " "

NotSpaceOrDash(c) == c \notin {" ", "-"}

DigitVal(c) == (CHOOSE i \in 1..10 : DigitChars[i] = c) - 1

\* The text of a digit tuple: D(<<4, 2>>) is the string "42".
D(t) == [i \in 1..Len(t) |-> DigitChars[t[i] + 1]]

AllDigits(s) == \A i \in 1..Len(s) : IsDigit(s[i])

\* s.slice(0, n)
Take(s, n) == SubSeq(s, 1, IF n < Len(s) THEN n ELSE Len(s))

\* s.slice(n)
Drop(s, n) == SubSeq(s, n + 1, Len(s))

StartsWith(s, p) == Len(p) <= Len(s) /\ SubSeq(s, 1, Len(p)) = p

\* Whether character c belongs to a regular-expression class: "d" is \d,
\* "D" is \D and "s" is white space.
Matches(c, class) ==
    CASE class = "d" -> IsDigit(c)
      [] class = "D" -> IsNonDigit(c)
      [] class = "s" -> IsSpace(c)

\* The length of the longest prefix of s whose characters are all of the class.
RunLen(s, class) ==
    CHOOSE n \in 0..Len(s) :
        /\ \A i \in 1..n : Matches(s[i], class)
        /\ n = Len(s) \/ ~Matches(s[n + 1], class)

Min(a, b) == IF a < b THEN a ELSE b

\* The value of a string of digits.
RECURSIVE DigitsValue(_)
DigitsValue(s) ==
    IF s = <<>> THEN 0
    ELSE 10 * DigitsValue(SubSeq(s, 1, Len(s) - 1)) + DigitVal(s[Len(s)])

\* parseInt(s, 10) of a string without sign: the value of the leading digits
\* after leading white space, and NaN (written -1) when there are none.
ParseInt(s) ==
    LET t == Drop(s, RunLen(s, "s"))
        n == RunLen(t, "d")
    IN IF n = 0 THEN -1 ELSE DigitsValue(Take(t, n))

\* The number of characters of (n + '') for n >= 0.
RECURSIVE DecLen(_)
DecLen(n) == IF n < 10 THEN 1 ELSE 1 + DecLen(n \div 10)

----------------------------------------------------------------------------
(* creditcardutils: the card table, formatCardNumber, validateCardNumber,  *)
(* parseCardType                                                           *)

\* The card table, in the order cardFromNumber searches it.  sizes are the
\* digit groups of the card's format; luhn says whether validateCardNumber
\* runs the checksum for the card.
cards ==
    << [type |-> "visaelectron",
        patterns |-> {D(<<4,0,2,6>>), D(<<4,1,7,5,0,0>>), D(<<4,4,0,5>>), D(<<4,5,0,8>>),
                      D(<<4,8,4,4>>), D(<<4,9,1,3>>), D(<<4,9,1,7>>)},
        sizes |-> <<4, 4, 4, 4, 4>>, length |-> {16}, luhn |-> TRUE],
       [type |-> "maestro",
        patterns |-> {D(<<5,0,1,8>>), D(<<5,0,2>>), D(<<5,0,3>>), D(<<5,0,6>>), D(<<5,6>>),
                      D(<<5,8>>), D(<<6,3,9>>), D(<<6,2,2,0>>), D(<<6,7>>)},
        sizes |-> <<4, 4, 4, 4, 4>>, length |-> 12..19, luhn |-> TRUE],
       [type |-> "forbrugsforeningen",
        patterns |-> {D(<<6,0,0>>)},
        sizes |-> <<4, 4, 4, 4, 4>>, length |-> {16}, luhn |-> TRUE],
       [type |-> "dankort",
        patterns |-> {D(<<5,0,1,9>>)},
        sizes |-> <<4, 4, 4, 4, 4>>, length |-> {16}, luhn |-> TRUE],
       [type |-> "visa",
        patterns |-> {D(<<4>>)},
        sizes |-> <<4, 4, 4, 4, 4>>, length |-> {13, 16}, luhn |-> TRUE],
       [type |-> "mastercard",
        patterns |-> {D(<<5,1>>), D(<<5,2>>), D(<<5,3>>), D(<<5,4>>), D(<<5,5>>),
                      D(<<2,2>>), D(<<2,3>>), D(<<2,4>>), D(<<2,5>>), D(<<2,6>>), D(<<2,7>>)},
        sizes |-> <<4, 4, 4, 4, 4>>, length |-> {16}, luhn |-> TRUE],
       [type |-> "amex",
        patterns |-> {D(<<3,4>>), D(<<3,7>>)},
        sizes |-> <<4, 6, 5>>, length |-> {15}, luhn |-> TRUE],
       [type |-> "dinersclub",
        patterns |-> {D(<<3,0>>), D(<<3,6>>), D(<<3,8>>), D(<<3,9>>)},
        sizes |-> <<4, 6, 4>>, length |-> {14}, luhn |-> TRUE],
       [type |-> "discover",
        patterns |-> {D(<<6,0>>), D(<<6,4>>), D(<<6,5>>), D(<<6,2,2>>)},
        sizes |-> <<4, 4, 4, 4, 4>>, length |-> {16}, luhn |-> TRUE],
       [type |-> "unionpay",
        patterns |-> {D(<<6,2>>), D(<<8,8>>)},
        sizes |-> <<4, 4, 4, 4, 4>>, length |-> 16..19, luhn |-> FALSE],
       [type |-> "jcb",
        patterns |-> {D(<<3,5>>)},
        sizes |-> <<4, 4, 4, 4, 4>>, length |-> {16}, luhn |-> TRUE] >>

\* num.replace(/\D/g, '')
OnlyDigits(s) == SelectSeq(s, IsDigit)

CardMatches(i, num) == \E p \in cards[i].patterns : StartsWith(num, p)

\* cardFromNumber: the index of the first card one of whose patterns starts
\* the digits of num, 0 when there is none.
cardFromNumber(num) ==
    LET n == OnlyDigits(num)
        hits == {i \in 1..Len(cards) : CardMatches(i, n)}
    IN IF hits = {} THEN 0 ELSE CHOOSE i \in hits : \A j \in hits : i <= j

MaxOf(S) == CHOOSE x \in S : \A y \in S : y <= x

\* The digits s cut into groups of the given sizes, joined by one space.
RECURSIVE JoinGroups(_, _)
JoinGroups(s, sizes) ==
    IF s = <<>> \/ sizes = <<>> THEN <<>>
    ELSE LET n == Min(Head(sizes), Len(s))
             rest == JoinGroups(Drop(s, n), Tail(sizes))
         IN Take(s, n) \o (IF rest = <<>> THEN <<>> ELSE <<" ">> \o rest)

\* formatCardNumber(num)
formatCardNumber(num) ==
    LET n == OnlyDigits(num)
        c == cardFromNumber(n)
    IN IF c = 0 THEN n
       ELSE JoinGroups(Take(n, MaxOf(cards[c].length)), cards[c].sizes)

\* luhnCheck: from the last digit, every second digit is doubled (minus 9
\* when that exceeds 9); the sum must be a multiple of 10.
RECURSIVE LuhnSum(_, _)
LuhnSum(s, odd) ==
    IF s = <<>> THEN 0
    ELSE LET d == DigitVal(s[Len(s)])
             e == IF odd THEN d ELSE (IF 2 * d > 9 THEN 2 * d - 9 ELSE 2 * d)
         IN e + LuhnSum(SubSeq(s, 1, Len(s) - 1), ~odd)

luhnCheck(num) == LuhnSum(num, TRUE) % 10 = 0

\* validateCardNumber(num)
validateCardNumber(num) ==
    LET n == SelectSeq(num, NotSpaceOrDash)
        c == cardFromNumber(n)
    IN /\ n # <<>>
       /\ AllDigits(n)
       /\ c # 0
       /\ Len(n) \in cards[c].length
       /\ (~cards[c].luhn \/ luhnCheck(n))

\* parseCardType(num): the type of the card of num, "null" when it has none.
parseCardType(num) ==
    IF num = <<>> \/ cardFromNumber(num) = 0 THEN "null"
    ELSE cards[cardFromNumber(num)].type

----------------------------------------------------------------------------
(* creditcardutils: formatCardExpiry, parseCardExpiry, validateCardExpiry  *)

\* formatCardExpiry(expiry):
\*   parts = expiry.match(/^\D*(\d{1,2})(\D+)?(\d{1,4})?/)
formatCardExpiry(expiry) ==
    LET s1 == Drop(expiry, RunLen(expiry, "D"))
        mon == Take(s1, Min(2, RunLen(s1, "d")))
        s2 == Drop(s1, Len(mon))
        sep == Take(s2, RunLen(s2, "D"))
        s3 == Drop(s2, Len(sep))
        year == Take(s3, Min(4, RunLen(s3, "d")))
    IN IF mon = <<>> THEN <<>>
       ELSE IF Len(year) > 0 THEN mon \o <<" ", "/", " ">> \o year
       ELSE IF sep = <<" ", "/">> THEN Take(mon, 1)
       ELSE IF Len(mon) = 2 \/ Len(sep) > 0 THEN mon \o <<" ", "/", " ">>
       ELSE IF Len(mon) = 1 /\ mon # <<"0">> /\ mon # <<"1">>
            THEN <<"0">> \o mon \o <<" ", "/", " ">>
       ELSE mon

\* The index of the first "/" of s, 0 when it has none.
SlashAt(s) ==
    IF \E i \in 1..Len(s) : s[i] = "/"
    THEN CHOOSE i \in 1..Len(s) : s[i] = "/" /\ \A j \in 1..(i - 1) : s[j] # "/"
    ELSE 0

\* parseCardExpiry(value): {month, year}, NaN written -1.  A two-digit year
\* gets the century of the current year in front.
parseCardExpiry(value) ==
    LET v == SelectSeq(value, NotSpace)
        i == SlashAt(v)
        month == IF i = 0 THEN v ELSE Take(v, i - 1)
        rest == Drop(v, i)
        j == SlashAt(rest)
        year == IF j = 0 THEN rest ELSE Take(rest, j - 1)
        prefix == D(<<(now[1] \div 1000) % 10, (now[1] \div 100) % 10>>)
        year4 == IF i # 0 /\ Len(year) = 2 /\ AllDigits(year) THEN prefix \o year ELSE year
    IN [month |-> ParseInt(month), year |-> IF i = 0 THEN -1 ELSE ParseInt(year4)]

\* validateCardExpiry without the comparison with the current date.
validateCardExpiry_anyDate(month, year) ==
    LET y == IF DecLen(year) = 2
             THEN (IF year < 70 THEN 2000 + year ELSE 1900 + year)
             ELSE year
    IN /\ month > 0 /\ year > 0
       /\ 1 <= month /\ month <= 12
       /\ DecLen(y) = 4

\* validateCardExpiry(month, year): the month is 1..12, the year has four
\* digits (two digits read as 19xx or 20xx), and the first day of the month
\* after it is later than now.
validateCardExpiry(month, year) ==
    LET y == IF DecLen(year) = 2
             THEN (IF year < 70 THEN 2000 + year ELSE 1900 + year)
             ELSE year
    IN /\ month > 0 /\ year > 0
       /\ 1 <= month /\ month <= 12
       /\ DecLen(y) = 4
       /\ y * 12 + month >= now[1] * 12 + now[2]

----------------------------------------------------------------------------
(* The Joi schema: each field's message, "" when the value passes          *)

\* Joi.string().email({ tlds: { allow: false } }) on strings of letters,
\* digits, "@", "." and " ": one "@", a local part and a domain of at least
\* two parts, no part empty.
NoEmptyPart(s) ==
    /\ s # <<>>
    /\ s[1] # "." /\ s[Len(s)] # "."
    /\ \A i \in 1..(Len(s) - 1) : ~(s[i] = "." /\ s[i + 1] = ".")

isEmail(s) ==
    LET ats == {i \in 1..Len(s) : s[i] = "@"}
        at == CHOOSE i \in ats : TRUE
        local == Take(s, at - 1)
        domain == Drop(s, at)
    IN /\ Cardinality(ats) = 1
       /\ \A i \in 1..Len(s) : s[i] # " "
       /\ NoEmptyPart(local)
       /\ NoEmptyPart(domain)
       /\ \E i \in 1..Len(domain) : domain[i] = "."

\* schema.email
emailError(value) ==
    IF value = Null THEN "\"email\" must be a string"
    ELSE IF value = <<>> THEN "Required"
    ELSE IF ~isEmail(value) THEN "Must be a valid email"
    ELSE ""

\* schema.card_number without the brand check.
cardNumberError_noBrandCheck(value) ==
    IF value = Null THEN "\"card_number\" must be a string"
    ELSE IF value = <<>> THEN "Required"
    ELSE IF ~validateCardNumber(value) THEN "Must be a valid card"
    ELSE ""

\* schema.card_number with the brand check ahead of the validity check.
cardNumberError_brandFirst(value) ==
    IF value = Null THEN "\"card_number\" must be a string"
    ELSE IF value = <<>> THEN "Required"
    ELSE IF parseCardType(value) # "mastercard" /\ parseCardType(value) # "visa"
         THEN "Wrong card number"
    ELSE IF ~validateCardNumber(value) THEN "Must be a valid card"
    ELSE ""

\* schema.card_number
cardNumberError(value) ==
    IF value = Null THEN "\"card_number\" must be a string"
    ELSE IF value = <<>> THEN "Required"
    ELSE IF ~validateCardNumber(value) THEN "Must be a valid card"
    ELSE IF parseCardType(value) # "mastercard" /\ parseCardType(value) # "visa"
         THEN "Wrong card number"
    ELSE ""

\* schema.card_expire
cardExpireError(value) ==
    IF value = Null THEN "\"card_expire\" must be a string"
    ELSE IF value = <<>> THEN "Required"
    ELSE LET timeExpiry == parseCardExpiry(value)
         IN IF ~validateCardExpiry(timeExpiry.month, timeExpiry.year)
            THEN "Wrong date"
            ELSE ""

\* schema.cvv
cvvError(value) ==
    IF value = Null THEN "\"cvv\" must be a string"
    ELSE IF value = <<>> THEN "Required"
    ELSE IF Len(value) # 3 THEN "Need 3 digits"
    ELSE ""

\* schema.validate(d): the message of each field.
schemaErrors(d) ==
    [f \in Fields |->
        CASE f = "email" -> emailError(d[f])
          [] f = "card_number" -> cardNumberError(d[f])
          [] f = "card_expire" -> cardExpireError(d[f])
          [] f = "cvv" -> cvvError(d[f])]

\* state.$errors: a field shows its message once its value is no longer the
\* initial one.
shownErrors(d) ==
    [f \in Fields |-> IF d[f] # defaultState[f] THEN schemaErrors(d)[f] ELSE ""]

\* state.$auto_invalid: some field has a message, shown or not.
autoInvalid(d) == \E f \in Fields : schemaErrors(d)[f] # ""

----------------------------------------------------------------------------
(* The component *)

\* getErrors(field)
getErrors(field) == errors[field]

\* The button's flag without the loading prop.
disabled_ignoresLoading == auto_invalid

\* <Button disabled={state.$auto_invalid || loading}>
disabled == auto_invalid \/ loading

\* Values the user enters (typed or pasted) into each input.
EmailInputs == {<<>>, <<"a", "@", "b", ".", "c">>, <<"a", "@", "b">>}

CardNumberInputs ==
    {D(<<4,2,4,2,4,2,4,2,4,2,4,2,4,2,4,2>>),     \* Visa
     D(<<3,7,8,2,8,2,2,4,6,3,1,0,0,0,5>>),       \* American Express
     D(<<4,2,4,2,4,2,4,2,4,2,4,2,4,2,4,1>>)}     \* Visa, checksum wrong

CardExpireInputs == {<<"1", "2", "/", "3", "0">>, <<"0", "1", "/", "2", "0">>}

CvvInputs == {<<"1", "2", "3">>, <<"4", "5", "6">>, <<"1", "2">>, <<"1", "2", "a">>}

\* The dates the form may be used at, <<year, month>>.
Nows == {<<2026, 11>>, <<2027, 1>>}

Init ==
    /\ models = defaultState
    /\ data = defaultState
    /\ errors = [f \in Fields |-> ""]
    /\ auto_invalid = FALSE
    /\ syncPending = TRUE
    /\ validatePending = TRUE
    /\ loading \in BOOLEAN
    /\ called = <<>>
    /\ now \in Nows

\* React runs the effects that a render left due before it renders again, so
\* a state update or a new prop, which render the component, find none due.
NoEffectDue == ~syncPending /\ ~validatePending

\* updateModel(name, value), after which the effect on [models] is due.
updateModel(name, value) ==
    /\ NoEffectDue
    /\ models' = [models EXCEPT ![name] = value]
    /\ syncPending' = TRUE
    /\ UNCHANGED <<data, errors, auto_invalid, validatePending, loading, called, now>>

\* register.input({ name: "email" }): the input's change handler.
InputEmail(raw) == updateModel("email", raw)

\* formatter.cardNumber
InputCardNumber(raw) == updateModel("card_number", formatCardNumber(raw))

\* formatter.cardExpire
InputCardExpire(raw) == updateModel("card_expire", formatCardExpiry(raw))

\* register.input({ name: "cvv" }): the input's change handler.
InputCvv(raw) == updateModel("cvv", raw)

\* The effect without its setData call.
SyncEffect_noSetData ==
    /\ syncPending
    /\ syncPending' = FALSE
    /\ called' = <<>>
    /\ UNCHANGED <<models, data, errors, auto_invalid, validatePending, loading, now>>

\* useEffect(() => { setData(models) }, [models])
SyncEffect ==
    /\ syncPending
    /\ data' = models
    /\ syncPending' = FALSE
    /\ validatePending' = TRUE
    /\ called' = <<>>
    /\ UNCHANGED <<models, errors, auto_invalid, loading, now>>

\* useValidator's re-evaluation of the schema on the $data it holds.
ValidateEffect ==
    /\ validatePending
    /\ errors' = shownErrors(data)
    /\ auto_invalid' = autoInvalid(data)
    /\ validatePending' = FALSE
    /\ called' = <<>>
    /\ UNCHANGED <<models, data, syncPending, loading, now>>

\* onSubmit clearing the form after the call.
Submit_resetsForm ==
    /\ ~disabled
    /\ called' = <<data>>
    /\ models' = defaultState
    /\ syncPending' = TRUE
    /\ UNCHANGED <<data, errors, auto_invalid, validatePending, loading, now>>

\* onSubmit, reached through the submit button, which a browser lets submit
\* the form only while it is not disabled.
Submit ==
    /\ ~disabled
    /\ called' = <<data>>
    /\ UNCHANGED <<models, data, errors, auto_invalid, syncPending,
                   validatePending, loading, now>>

\* The parent renders the form with another loading prop.
SetLoading ==
    /\ NoEffectDue
    /\ loading' = ~loading
    /\ called' = <<>>
    /\ UNCHANGED <<models, data, errors, auto_invalid, syncPending,
                   validatePending, now>>

Next ==
    \/ \E raw \in EmailInputs : InputEmail(raw)
    \/ \E raw \in CardNumberInputs : InputCardNumber(raw)
    \/ \E raw \in CardExpireInputs : InputCardExpire(raw)
    \/ \E raw \in CvvInputs : InputCvv(raw)
    \/ SyncEffect
    \/ ValidateEffect
    \/ Submit
    \/ SetLoading

Spec == Init /\ [][Next]_vars

\* The scheduler runs the component's effect whenever it is due.
FairSpec == Spec /\ WF_vars(SyncEffect)

----------------------------------------------------------------------------
(* The form with one field edited over a wider set of values *)

AllCardNumberInputs ==
    {<<>>,
     D(<<4,2,4,2,4,2,4,2,4,2,4,2,4,2,4,2>>),     \* Visa
     D(<<4,2,4,2,4,2,4,2,4,2,4,2,4,2,4,1>>),     \* Visa, checksum wrong
     D(<<4,2,4,2,4,2,4,2>>),                     \* Visa, too short
     D(<<5,5,5,5,5,5,5,5,5,5,5,5,4,4,4,4>>),     \* Mastercard
     D(<<3,7,8,2,8,2,2,4,6,3,1,0,0,0,5>>),       \* American Express
     D(<<3,7,8,2,8,2,2,4,6,3,1,0,0,0,6>>),       \* American Express, checksum wrong
     D(<<3,7,8,2,8,2,2,4,6,3,1,0,0,3>>),         \* American Express, 14 digits
     D(<<9,9,9,9,9,9,9,9,9,9,9,9,9,9,9,5>>),     \* no known brand
     D(<<6,2,0,0,0,0,0,0,0,0,0,0,0,0,0,5>>),     \* UnionPay
     D(<<6,2,0,0,0,0,0,0,0,0,0,0,0,0,0,0>>),     \* UnionPay, checksum wrong
     <<"4", "2", "4", "2", " ", "4", "2", "a">>}

NextCard ==
    \/ \E raw \in AllCardNumberInputs : InputCardNumber(raw)
    \/ SyncEffect
    \/ ValidateEffect

SpecCard == Init /\ [][NextCard]_vars

AllCvvInputs ==
    {<<>>, <<"1">>, <<"1", "2">>, <<"1", "2", "3">>, <<"4", "5", "6">>,
     <<"1", "2", "3", "4">>, <<"1", "2", "a">>, <<"a", "b", "c">>, <<"1", " ", "2">>}

NextCvv ==
    \/ \E raw \in AllCvvInputs : InputCvv(raw)
    \/ SyncEffect
    \/ ValidateEffect

SpecCvv == Init /\ [][NextCvv]_vars

AllCardExpireInputs ==
    {<<>>,
     <<"1", "2", "/", "3", "0">>,
     <<"1", "2", "3", "0">>,
     <<"0", "1", "/", "2", "0">>,
     <<"1", "1", "/", "2", "6">>,
     <<"1", "0", "/", "2", "6">>,
     <<"1", "3", "/", "3", "0">>,
     <<"0", "0", "/", "3", "0">>,
     <<"5">>,
     <<"1", "2", " ", "/">>,
     <<"1", "2", "/", "2", "0", "3", "0">>,
     <<"1", "2", "/", "2", "0", "3">>,
     <<"1", "2", "/", "0", "0", "3", "0">>,
     <<"1", "2", "/", "0", "0", "9", "9">>,
     <<"1", "2", "/", "0", "0", "0", "5">>,
     <<"1", "2", "/", "9", "9">>,
     <<"a", "b">>}

NextExpire ==
    \/ \E raw \in AllCardExpireInputs : InputCardExpire(raw)
    \/ \E raw \in {<<"a", "@", "b", ".", "c">>} : InputEmail(raw)
    \/ \E raw \in {D(<<4,2,4,2,4,2,4,2,4,2,4,2,4,2,4,2>>)} : InputCardNumber(raw)
    \/ \E raw \in {<<"1", "2", "3">>} : InputCvv(raw)
    \/ SyncEffect
    \/ ValidateEffect

SpecExpire == Init /\ [][NextExpire]_vars

----------------------------------------------------------------------------
(* Properties *)

\* Every value of d passes its rule.
FormValid(d) == \A f \in Fields : schemaErrors(d)[f] = ""

\* No effect is due: the validator has evaluated the values of the form.
Settled == NoEffectDue

\* The validator has evaluated the $data it holds.
Evaluated == ~validatePending

Filled(v) == v # Null /\ v # <<>>

\* The change handler of the input of field f.
InputOn(f) ==
    CASE f = "email" -> \E raw \in EmailInputs : InputEmail(raw)
      [] f = "card_number" -> \E raw \in CardNumberInputs : InputCardNumber(raw)
      [] f = "card_expire" -> \E raw \in CardExpireInputs : InputCardExpire(raw)
      [] f = "cvv" -> \E raw \in CvvInputs : InputCvv(raw)

\* The month and year v parses to are no month of the calendar, or a month
\* before the current one.
ExpiryWrong(v) ==
    LET p == parseCardExpiry(v)
    IN ~(/\ p.month \in 1..12
         /\ p.year >= 0
         /\ p.year * 12 + p.month >= now[1] * 12 + now[2])

\* The same where a parsed year of two digits stands for 20xx below 70 and
\* for 19xx from 70 on, and only a year of four digits is a year.
ExpiryWrongShortYear(v) ==
    LET p == parseCardExpiry(v)
        y == IF p.year \in 10..69 THEN 2000 + p.year
             ELSE IF p.year \in 70..99 THEN 1900 + p.year
             ELSE p.year
    IN ~(/\ p.month \in 1..12
         /\ y \in 1000..9999
         /\ y * 12 + p.month >= now[1] * 12 + now[2])

\* The digits of a card number.
CardDigits(v) == OnlyDigits(v)

\* C1: a submit that occurs while all four form values pass their rules
\* calls onSuccess exactly once, with the form values of that moment.
SubmitPassesCurrentValues ==
    [][(Submit /\ FormValid(models)) => called' = <<models>>]_vars

\* C2: onSuccess is never called with a value set in which a field fails its
\* rule; every argument is four validated strings.
OnSuccessOnlyValid ==
    \A i \in 1..Len(called) :
        /\ \A f \in Fields : called[i][f] # Null
        /\ FormValid(called[i])

\* C3: in every rendered state in which a form value is null or the empty
\* string, the submit button is disabled.
DisabledWhileEmpty ==
    (\E f \in Fields : ~Filled(models[f])) => disabled

CvvPassesIffThreeDigits ==
    (Evaluated /\ data["cvv"] # Null) =>
        /\ getErrors("cvv") = "" <=> (Len(data["cvv"]) = 3 /\ AllDigits(data["cvv"]))
        /\ data["cvv"] = <<>> => getErrors("cvv") = "Required"
        /\ (Len(data["cvv"]) # 3 /\ data["cvv"] # <<>>) => getErrors("cvv") = "Need 3 digits"

\* C6 as stated: every non-empty card number that passes the Luhn checksum
\* and whose brand is neither Visa nor Mastercard (a known other brand, or no
\* known brand) gets "Wrong card number".
LuhnValidOtherBrandIsWrongCard ==
    (/\ Evaluated
     /\ Filled(data["card_number"])
     /\ luhnCheck(CardDigits(data["card_number"]))
     /\ parseCardType(data["card_number"]) \notin {"visa", "mastercard"})
    => getErrors("card_number") = "Wrong card number"

\* C6, amended: every non-empty card number that the card library accepts
\* (only digits, spaces and dashes, of a brand it knows, of a length that
\* brand allows, passing the Luhn checksum) and whose brand is neither Visa
\* nor Mastercard gets "Wrong card number", not "Must be a valid card".
AcceptedOtherBrandIsWrongCard ==
    LET v == data["card_number"]
        c == cardFromNumber(v)
    IN (/\ Evaluated
        /\ Filled(v)
        /\ luhnCheck(CardDigits(v))
        /\ c # 0
        /\ Len(CardDigits(v)) \in cards[c].length
        /\ cards[c].type \notin {"visa", "mastercard"})
       => getErrors("card_number") = "Wrong card number"

AcceptedOtherBrandWitness ==
    /\ Evaluated
    /\ data["card_number"] = formatCardNumber(D(<<3,7,8,2,8,2,2,4,6,3,1,0,0,0,5>>))
    /\ getErrors("card_number") = "Wrong card number"

\* C7 as stated: every non-empty card number that fails the Luhn checksum
\* gets "Must be a valid card", whatever its brand.
LuhnInvalidIsInvalidCard ==
    (/\ Evaluated
     /\ Filled(data["card_number"])
     /\ ~luhnCheck(CardDigits(data["card_number"])))
    => getErrors("card_number") = "Must be a valid card"

\* C7, amended: every non-empty card number that fails the Luhn checksum
\* gets "Must be a valid card" and not "Wrong card number", except a number
\* of a brand the card library accepts without the checksum (UnionPay, at 16
\* to 19 digits), which gets "Wrong card number"; never both messages.
LuhnInvalidIsInvalidCardButUnionPay ==
    LET v == data["card_number"]
        c == cardFromNumber(v)
        unchecked == c # 0 /\ ~cards[c].luhn /\ Len(CardDigits(v)) \in cards[c].length
    IN (/\ Evaluated
        /\ Filled(v)
        /\ ~luhnCheck(CardDigits(v)))
       => getErrors("card_number") =
            (IF unchecked THEN "Wrong card number" ELSE "Must be a valid card")

LuhnInvalidWitness ==
    /\ Evaluated
    /\ data["card_number"] = formatCardNumber(D(<<3,7,8,2,8,2,2,4,6,3,1,0,0,0,6>>))
    /\ getErrors("card_number") = "Must be a valid card"

\* C8 as stated: for the non-empty expiry of the form, once the validator
\* has evaluated it, the field carries "Wrong date" exactly when the parsed
\* month and year are no valid month or lie before the current month, and no
\* message otherwise; the submit button (the other fields passing, not
\* loading) is disabled exactly in the first case.
ExpiryRuleAndButton ==
    LET v == models["card_expire"]
        othersPass == \A f \in Fields \ {"card_expire"} : schemaErrors(models)[f] = ""
    IN (Settled /\ Filled(v)) =>
        /\ getErrors("card_expire") = (IF ExpiryWrong(v) THEN "Wrong date" ELSE "")
        /\ (othersPass /\ ~loading) => (disabled <=> ExpiryWrong(v))

\* C8, amended: the same where a parsed year of two digits (the 30 of
\* "12 / 0030") is read as 20xx below 70 and as 19xx from 70 on, and a year
\* that is then not of four digits is no valid year.
ExpiryRuleAndButtonShortYear ==
    LET v == models["card_expire"]
        othersPass == \A f \in Fields \ {"card_expire"} : schemaErrors(models)[f] = ""
    IN (Settled /\ Filled(v)) =>
        /\ getErrors("card_expire") = (IF ExpiryWrongShortYear(v) THEN "Wrong date" ELSE "")
        /\ (othersPass /\ ~loading) => (disabled <=> ExpiryWrongShortYear(v))

ExpiryRuleWitness ==
    /\ Settled
    /\ ~loading
    /\ models["card_expire"] = <<"0", "1", " ", "/", " ", "2", "0">>
    /\ \A f \in Fields \ {"card_expire"} : schemaErrors(models)[f] = ""
    /\ getErrors("card_expire") = "Wrong date"
    /\ disabled

\* C9: once the sync effect has run, the validator's data are the form
\* values; once the validator has re-evaluated too, the errors and the
\* invalid flag are those of the form values; and the validator never holds
\* other values than the form for ever.
ValidatorFollowsForm ==
    /\ [](~syncPending => data = models)
    /\ [](Settled => (errors = shownErrors(models) /\ auto_invalid = autoInvalid(models)))
    /\ []<>(data = models)

ValidatorFollowsFormWitness ==
    /\ Settled
    /\ \A f \in Fields : Filled(models[f])
    /\ data = models
    /\ auto_invalid

\* C10: a submit, the sync effect and the validator's re-evaluation leave the
\* four form values as they are; a step that changes a form value is the
\* change handler of one field and changes that field only.
OnlyInputChangesForm ==
    [][models' # models =>
            /\ ~(Submit \/ SyncEffect \/ ValidateEffect)
            /\ \E f \in Fields :
                /\ InputOn(f)
                /\ \A g \in Fields \ {f} : models'[g] = models[g]]_vars

OnlyInputChangesFormWitness ==
    /\ called # <<>>
    /\ \A f \in Fields : Filled(models[f])
    /\ Settled

====
